---- MODULE Spec2Model ----
(***************************************************************************)
(* A model of the trino-tuner optimisation pipeline (src/core/optimizer.py *)
(* and the components it composes).                                        *)
(*                                                                         *)
(* Representation.  A Python str is a sequence of pieces; a piece is       *)
(* either one whitespace character or a chunk of text that neither starts  *)
(* nor ends with whitespace, and concatenation is \o.  An Optional value   *)
(* is a sequence of length 0 (None) or 1 (the value).  The collaborators   *)
(* (the Trino client, the language model, sqlglot) answer from small       *)
(* sets of concrete replies.                                               *)
(***************************************************************************)
EXTENDS Integers, Sequences, FiniteSets, TLC

VARIABLES
    sql,            \* the sql argument of optimize_sql (Optional str)
    s,              \* the Settings the run is given
    pc,             \* position of the run inside optimize_sql
    original_sql,   \* optimizer.py:78
    explain_before, \* optimizer.py:108 (Optional ExplainResult)
    table_refs,     \* optimizer.py:124
    metas,          \* metadata.py:91, the list fetch_metadata_for_tables builds
    table_cols,     \* metadata.py:93, cols of the table being described (Optional)
    prompt,         \* optimizer.py:136 and 153, the prompt built for the model call
                    \* of the iteration (Optional)
    candidate_sql,  \* optimizer.py:138
    explain_after,  \* optimizer.py:139
    llm_changes,    \* optimizer.py:140
    llm_assumptions,\* optimizer.py:141
    llm_risk,       \* optimizer.py:142
    last_error,     \* optimizer.py:143
    attempts,       \* optimizer.py:146
    i,              \* the loop variable of optimizer.py:147
    improved,       \* what _is_improved returned at optimizer.py:182 (Optional)
    response,       \* the OptimizeResponse returned (Optional)
    exception,      \* the exception that left optimize_sql (Optional)
    engine_log,     \* every statement handed to TrinoClient.query, in order
    llm_log,        \* every prompt handed to LLMClient.optimize, in order
    trail           \* what each finished attempt recorded, in order

vars == <<sql, s, pc, original_sql, explain_before, table_refs, metas, table_cols,
          prompt,
          candidate_sql, explain_after, llm_changes, llm_assumptions, llm_risk,
          last_error, attempts, i, improved, response, exception, engine_log,
          llm_log, trail>>

----------------------------------------------------------------------------
(* Optional values and Python truthiness *)

None == <<>>
Some(x) == <<x>>

\* `x or default` on an Optional str: None and "" are both falsy
OrElse(opt, default) == IF opt = None \/ opt[1] = <<>> THEN default ELSE opt[1]

\* an Optional str inside an f-string
Format(opt) == IF opt = None THEN <<"None">> ELSE opt[1]

----------------------------------------------------------------------------
(* str.strip *)

Whitespace == {" ", "\n", "\t"}

RECURSIVE lstrip(_)
lstrip(t) == IF t # <<>> /\ Head(t) \in Whitespace THEN lstrip(Tail(t)) ELSE t

RECURSIVE rstrip(_)
rstrip(t) ==
    IF t # <<>> /\ t[Len(t)] \in Whitespace
    THEN rstrip(SubSeq(t, 1, Len(t) - 1))
    ELSE t

\* strip with the bug of stripping nothing
strip_identity(t) == t

strip(t) == rstrip(lstrip(t))

----------------------------------------------------------------------------
(* len() and the slice text[:n].  Two pieces stand for texts too long to    *)
(* write out: a plan of 12001 characters and a table definition of 3827     *)
(* characters whose WITH clause lies beyond character 2000.                 *)

LongPlan == "Fragment 0 [SINGLE] (a plan of 12001 characters)"
LongPlanHead == "Fragment 0 [SINGLE] (the first 12000 characters of the plan)"

LongDdl == "CREATE TABLE s (a definition of 3827 characters) WITH (format = 'ORC')"
LongDdlHead == "CREATE TABLE s (the first 2000 characters of the definition"

LongPieces == {LongPlan, LongPlanHead, LongDdl, LongDdlHead}

\* len(piece)
len(piece) ==
    CASE piece = LongPlan -> 12001
      [] piece = LongPlanHead -> 12000
      [] piece = LongDdl -> 3827
      [] piece = LongDdlHead -> 2000
      [] OTHER -> Len(piece)

\* piece[:n] for 0 < n < len(piece)
piece_head(piece, n) ==
    CASE piece = LongPlan /\ n = 12000 -> LongPlanHead
      [] piece = LongDdl /\ n = 2000 -> LongDdlHead
      [] OTHER -> SubSeq(piece, 1, n)

\* len(text), halving the text
RECURSIVE text_len(_)
text_len(t) ==
    IF t = <<>> THEN 0
    ELSE IF Len(t) = 1 THEN len(t[1])
    ELSE LET half == Len(t) \div 2 IN
         text_len(SubSeq(t, 1, half)) + text_len(SubSeq(t, half + 1, Len(t)))

\* text[:n], halving the text
RECURSIVE Slice(_, _)
Slice(t, n) ==
    IF t = <<>> \/ n <= 0 THEN <<>>
    ELSE IF Len(t) = 1
    THEN (IF len(t[1]) <= n THEN t ELSE <<piece_head(t[1], n)>>)
    ELSE LET half == Len(t) \div 2
             left == SubSeq(t, 1, half)
             taken == text_len(left)
         IN  IF taken >= n THEN Slice(left, n)
             ELSE left \o Slice(SubSeq(t, half + 1, Len(t)), n - taken)

RECURSIVE Join(_, _)
Join(sep, parts) ==
    IF parts = <<>> THEN <<>>
    ELSE IF Len(parts) = 1 THEN parts[1]
    ELSE parts[1] \o <<sep>> \o Join(sep, Tail(parts))

----------------------------------------------------------------------------
(* sqlglot: what parse_one(sql, read="trino") yields for the statements    *)
(* the model uses.  Whitespace between tokens does not matter to the       *)
(* tokenizer, so the result depends on the non-whitespace pieces only.     *)

TableRef(catalog, schema, table) ==
    [catalog |-> catalog, schema |-> schema, table |-> table]

ParseError == [error |-> TRUE, root |-> "", has_select |-> FALSE, tables |-> <<>>]

Tree(root, has_select, tables) ==
    [error |-> FALSE, root |-> root, has_select |-> has_select, tables |-> tables]

parse_one(text) ==
    LET w == SelectSeq(text, LAMBDA p : p \notin Whitespace) IN
    IF Len(w) # 1 THEN ParseError
    ELSE CASE w[1] = "SELECT a FROM t" ->
                Tree("Select", TRUE, <<TableRef("", "", "t")>>)
           [] w[1] = "SELECT 1" ->
                Tree("Select", TRUE, <<>>)
           [] w[1] = "SELECT a FROM t WHERE ds = 1" ->
                Tree("Select", TRUE, <<TableRef("", "", "t")>>)
           [] w[1] = "INSERT INTO t SELECT a FROM s" ->
                Tree("Insert", TRUE, <<TableRef("", "", "t"), TableRef("", "", "s")>>)
           [] w[1] = "SELECT a FROM t UNION ALL SELECT a FROM t" ->
                Tree("Union", TRUE, <<TableRef("", "", "t"), TableRef("", "", "t")>>)
           [] w[1] = "SELECT a FROM t JOIN hive.default.t u ON t.a = u.a" ->
                Tree("Select", TRUE,
                     <<TableRef("", "", "t"), TableRef("hive", "default", "t")>>)
           [] w[1] = "DROP TABLE t" ->
                Tree("Drop", FALSE, <<TableRef("", "", "t")>>)
           [] OTHER -> ParseError

_is_read_only_select(text) ==
    LET tree == parse_one(text) IN
    IF tree.error THEN FALSE
    ELSE IF tree.root = "Select" THEN TRUE
    ELSE tree.has_select

fqtn(t) ==
    Join(".", SelectSeq(<<<<t.catalog>>, <<t.schema>>, <<t.table>>>>,
                        LAMBDA p : p # <<"">>))

----------------------------------------------------------------------------
(* The Trino client.  A reply of TrinoClient.query is an exception carrying *)
(* a message or a list of rows; a row is a list of cells, a cell is None    *)
(* or a string.                                                             *)

Raise(msg) == [raises |-> TRUE, error |-> msg, rows |-> <<>>]
Rows(rows) == [raises |-> FALSE, error |-> <<>>, rows |-> rows]

EngineErrors == {<<"line 1:8: syntax error near X">>, <<"Query exceeded maximum time limit">>}

\* EXPLAIN output: a plan of 12001 characters and more without a row estimate, and
\* plans whose first estimate is 1000, 1050 and 1051 rows; null cells and empty
\* rows occur
PlanRows ==
    { <<<<Some(LongPlan)>>, <<None>>, <<Some("Estimates: {rows: ? (?)}")>>>>,
      <<<<Some("Estimates: {rows: 1000 (9kB)}"), Some("x")>>, <<>>,
        <<Some("Estimates: {rows: 1051 (9kB)}")>>>>,
      <<<<Some("Estimates: {rows: 1050 (9kB)}")>>>>,
      <<<<Some("Estimates: {rows: 1051 (9kB)}")>>>>,
      <<<<Some("Estimates: {rows: 1.2.3 (9kB)}")>>>> }

ExplainReplies == {Raise(e) : e \in EngineErrors} \cup {Rows(r) : r \in PlanRows}

DescribeReplies ==
    {Raise(e) : e \in EngineErrors} \cup
    {Rows(<<<<Some("id"), Some("bigint")>>, <<None>>, <<Some("DS")>>>>)}

\* SHOW CREATE TABLE: the engine fails, or it returns the definition of the table;
\* the one of t is short, any other table has a long one or the engine returns
\* nothing for it
ShowCreateReplies(t) ==
    {Raise(e) : e \in EngineErrors} \cup
    (IF t.table = "t"
     THEN {Rows(<<<<Some("CREATE TABLE t (id bigint) WITH (format = 'ORC')")>>>>)}
     ELSE {Rows(<<>>), Rows(<<<<Some(LongDdl)>>>>)})

\* ExplainStatement with the bug of sending the statement as it is
ExplainStatement_unwrapped(text) == text

\* f"EXPLAIN {sql}"
ExplainStatement(text) == <<"EXPLAIN ">> \o text

\* f"DESCRIBE {t.fqtn()}"
DescribeStatement(t) == <<"DESCRIBE ">> \o fqtn(t)

\* f"SHOW CREATE TABLE {t.fqtn()}"
ShowCreateStatement(t) == <<"SHOW CREATE TABLE ">> \o fqtn(t)

----------------------------------------------------------------------------
(* explain.py *)

ExplainResult(ok, text, error, estimated_rows) ==
    [ok |-> ok, text |-> text, error |-> error, estimated_rows |-> estimated_rows]

\* PlanText with the bug of keeping the rows whose first cell is null
PlanText_with_nulls(rows) ==
    LET kept == SelectSeq(rows, LAMBDA r : r # <<>>) IN
    Join("\n", [k \in 1..Len(kept) |->
                    <<IF kept[k][1] = None THEN "None" ELSE kept[k][1][1]>>])

\* "\n".join(str(r[0]) for r in rows if r and r[0] is not None)
PlanText(rows) ==
    LET kept == SelectSeq(rows, LAMBDA r : r # <<>> /\ r[1] # None) IN
    Join("\n", [k \in 1..Len(kept) |-> <<kept[k][1][1]>>])

\* group 1 of re.match(r"rows:\s*([0-9.eE+]+)") in one piece of plan text
RowsPattern(piece) ==
    CASE piece = "Estimates: {rows: 1000 (9kB)}" -> Some("1000")
      [] piece = "Estimates: {rows: 1050 (9kB)}" -> Some("1050")
      [] piece = "Estimates: {rows: 1051 (9kB)}" -> Some("1051")
      [] piece = "Estimates: {rows: 1.2.3 (9kB)}" -> Some("1.2.3")
      [] OTHER -> None

\* re.search: the leftmost match in the text
re_search(txt) ==
    LET hits == SelectSeq(txt, LAMBDA p : RowsPattern(p) # None) IN
    IF hits = <<>> THEN None ELSE RowsPattern(hits[1])

\* float(m.group(1)); None where float raises ValueError
float(lit) ==
    CASE lit = "1000" -> Some(1000)
      [] lit = "1050" -> Some(1050)
      [] lit = "1051" -> Some(1051)
      [] OTHER -> None

_populate_signals(res) ==
    LET m == re_search(res.text) IN
    IF m # None THEN [res EXCEPT !.estimated_rows = float(m[1])] ELSE res

\* run_explain with the bug of dropping the exception's message
run_explain_without_error(reply) ==
    IF reply.raises
    THEN ExplainResult(FALSE, <<>>, None, None)
    ELSE _populate_signals(ExplainResult(TRUE, PlanText(reply.rows), None, None))

\* run_explain with the bug of reporting success when the client raised
run_explain_always_ok(reply) ==
    IF reply.raises
    THEN ExplainResult(TRUE, <<>>, Some(reply.error), None)
    ELSE _populate_signals(ExplainResult(TRUE, PlanText(reply.rows), None, None))

\* run_explain on the reply the client gives to the EXPLAIN statement
run_explain(reply) ==
    IF reply.raises
    THEN ExplainResult(FALSE, <<>>, Some(reply.error), None)
    ELSE _populate_signals(ExplainResult(TRUE, PlanText(reply.rows), None, None))

----------------------------------------------------------------------------
(* metadata.py *)

_split_fqtn_for_trino(table, default_catalog, default_schema) ==
    TableRef(IF table.catalog # "" THEN table.catalog ELSE default_catalog,
             IF table.schema # "" THEN table.schema ELSE default_schema,
             table.table)

\* the loop of fetch_table_columns over the rows DESCRIBE returned
ColumnInfos(rows) ==
    LET kept == SelectSeq(rows, LAMBDA r : r # <<>> /\ r[1] # None /\ r[1] # Some("")) IN
    [k \in 1..Len(kept) |->
        [name |-> kept[k][1][1],
         type |-> IF Len(kept[k]) > 1
                  THEN (IF kept[k][2] = None THEN "None" ELSE kept[k][2][1])
                  ELSE "unknown"]]

\* `"WITH (" in ddl`, piece by piece
HasWithClause(piece) ==
    piece \in {"CREATE TABLE t (id bigint) WITH (format = 'ORC')", LongDdl}

\* fetch_table_properties_best_effort once SHOW CREATE TABLE returned its rows;
\* a dict is the set of its (key, value) pairs
TableProperties(rows) ==
    LET kept == SelectSeq(rows, LAMBDA r : r # <<>> /\ r[1] # None /\ r[1] # Some(""))
        ddl == Join("\n", [k \in 1..Len(kept) |-> <<kept[k][1][1]>>])
    IN  IF ddl = <<>> THEN {}
        ELSE {<<"has_with_properties", <<"true">>>> : x \in {p \in 1..Len(ddl) : HasWithClause(ddl[p])}}
             \cup {<<"create_table_snippet", Slice(ddl, 2000)>>}

\* str.lower on the column names the model uses
lower(name) ==
    CASE name = "DS" -> "ds"
      [] name = "Date" -> "date"
      [] name = "HOUR" -> "hour"
      [] OTHER -> name

PartitionPatterns ==
    <<"ds", "date", "event_date", "dt", "day", "hour", "event_hour", "partition_date">>

\* infer_partition_columns_from_properties with the bug of comparing the names as
\* they are written
infer_partition_columns_case_sensitive(props, columns) ==
    LET colnames == {columns[k].name : k \in 1..Len(columns)} IN
    SelectSeq(PartitionPatterns, LAMBDA likely : likely \in colnames)

infer_partition_columns_from_properties(props, columns) ==
    LET colnames == {lower(columns[k].name) : k \in 1..Len(columns)} IN
    SelectSeq(PartitionPatterns, LAMBDA likely : likely \in colnames)

TableMetadata(table, columns, partition_columns, properties) ==
    [table |-> table, columns |-> columns,
     partition_columns |-> partition_columns, properties |-> properties]

----------------------------------------------------------------------------
(* llm.py.  A reply of the model backend is an exception ("raise"), text   *)
(* that is not JSON ("invalid": Sorry, I cannot help), JSON that is not an *)
(* object ("array": [1, 2]) or a JSON object ("object"); a JSON value is a *)
(* string or a number.                                                     *)

JsonString(text) == [type |-> "string", str |-> text, num |-> 0]
JsonNumber(n) == [type |-> "number", str |-> <<>>, num |-> n]

LLMReply(kind, error, optimized_sql, changes, assumptions, risk) ==
    [kind |-> kind, error |-> error, optimized_sql |-> optimized_sql,
     changes |-> changes, assumptions |-> assumptions, risk |-> risk]

LLMReplies ==
    { LLMReply("raise", <<"rate limit exceeded">>, None, None, None, None),
      LLMReply("raise", <<>>, None, None, None, None),
      LLMReply("invalid", <<>>, None, None, None, None),
      LLMReply("array", <<>>, None, None, None, None),
      LLMReply("object", <<>>, None, None, None, None),
      LLMReply("object", <<>>, Some(JsonString(<<>>)), Some(<<>>), Some(<<>>), Some("low")),
      LLMReply("object", <<>>, Some(JsonString(<<" ", "\n">>)), Some(<<>>), Some(<<>>), None),
      LLMReply("object", <<>>, Some(JsonNumber(5)), Some(<<>>), Some(<<>>), Some("low")),
      LLMReply("object", <<>>, Some(JsonNumber(0)), Some(<<>>), Some(<<>>), Some("low")),
      LLMReply("object", <<>>, Some(JsonString(<<"SELECT a FROM t WHERE ds = 1", "\n">>)),
               Some(<<"added partition predicate">>), Some(<<"ds is the partition">>),
               Some("low")),
      LLMReply("object", <<>>, Some(JsonString(<<"DROP TABLE t">>)),
               Some(<<"dropped the table">>), Some(<<>>), Some("high")),
      LLMReply("object", <<>>, Some(JsonString(<<"INSERT INTO t SELECT a FROM s">>)),
               Some(<<"materialised the result">>), Some(<<>>), Some("Low")) }

LLMResult(ok, optimized_sql, changes, assumptions, risk, error) ==
    [ok |-> ok, optimized_sql |-> optimized_sql, changes |-> changes,
     assumptions |-> assumptions, risk |-> risk, error |-> error]

\* str(e) of the json.JSONDecodeError that json.loads raises in _parse_json_strict
JSONDecodeError == <<"Expecting value: line 1 column 1 (char 0)">>

\* str(e) of the AttributeError that parsed.get raises on a list
ListHasNoGet == <<"'list' object has no attribute 'get'">>

\* LLMClient.optimize on the reply of the backend
optimize(reply) ==
    CASE reply.kind = "raise" ->
            LLMResult(FALSE, None, None, None, None, Some(reply.error))
      [] reply.kind = "invalid" ->
            LLMResult(FALSE, None, None, None, None, Some(JSONDecodeError))
      [] reply.kind = "array" ->
            LLMResult(FALSE, None, None, None, None, Some(ListHasNoGet))
      [] OTHER ->
            LLMResult(TRUE, reply.optimized_sql,
                      IF reply.changes = None THEN Some(<<>>) ELSE reply.changes,
                      IF reply.assumptions = None THEN Some(<<>>) ELSE reply.assumptions,
                      reply.risk, None)

\* Python truth value of res.optimized_sql: None, "" and 0 are falsy
Truthy(optimized_sql) ==
    /\ optimized_sql # None
    /\ optimized_sql[1].type = "string" => optimized_sql[1].str # <<>>
    /\ optimized_sql[1].type = "number" => optimized_sql[1].num # 0

\* res.risk or "unknown", optimizer.py:169: None and "" are falsy
risk_or_unknown(risk) == IF risk = None \/ risk = Some("") THEN Some("unknown") ELSE risk

\* res.changes or [], optimizer.py:167-168
list_or_empty(list) == IF list = None THEN Some(<<>>) ELSE list

----------------------------------------------------------------------------
(* prompt.py.  A prompt is the record of the texts its template embeds.    *)

\* a + b for two texts; the pieces that meet become one piece unless one of them
\* stands for a long text
text_plus(a, b) ==
    IF a = <<>> THEN b
    ELSE IF b = <<>> THEN a
    ELSE IF a[Len(a)] \in LongPieces \/ b[1] \in LongPieces THEN a \o b
    ELSE SubSeq(a, 1, Len(a) - 1) \o <<a[Len(a)] \o b[1]>> \o Tail(b)

\* sep.join(parts) for texts, with + as above
join_texts(sep, parts) ==
    LET joined[k \in 0..Len(parts)] ==
            IF k = 0 THEN <<>>
            ELSE IF k = 1 THEN parts[1]
            ELSE text_plus(text_plus(joined[k - 1], sep), parts[k])
    IN  joined[Len(parts)]

\* json.dumps of a str value: the quotes around it and the escapes inside
json_string(text) ==
    LET escaped == [k \in 1..Len(text) |->
                       <<CASE text[k] = "\n" -> "\\n"
                           [] text[k] = "\t" -> "\\t"
                           [] OTHER -> text[k]>>]
    IN  text_plus(text_plus(<<"\"">>, join_texts(<<>>, escaped)), <<"\"">>)

\* json.dumps of a list whose items are dumped already
json_list(items) == text_plus(text_plus(<<"[">>, join_texts(<<", ">>, items)), <<"]">>)

\* json.dumps of tm.properties: the keys in the order metadata.py:63-65 inserts them
json_properties(props) ==
    LET keys == SelectSeq(<<"has_with_properties", "create_table_snippet">>,
                          LAMBDA key : \E pair \in props : pair[1] = key)
        value(key) == (CHOOSE pair \in props : pair[1] = key)[2]
        items == [k \in 1..Len(keys) |->
                     text_plus(text_plus(json_string(<<keys[k]>>), <<": ">>),
                          json_string(value(keys[k])))]
    IN  text_plus(text_plus(<<"{">>, join_texts(<<", ">>, items)), <<"}">>)

\* json.dumps of one column, prompt.py:35
json_column(c) ==
    text_plus(text_plus(text_plus(text_plus(<<"{\"name\": ">>, json_string(<<c.name>>)),
                   <<", \"type\": ">>), json_string(<<c.type>>)), <<"}">>)

\* json.dumps of the entry of one table, prompt.py:32-37
json_table(tm) ==
    LET shown == SubSeq(tm.columns, 1, IF Len(tm.columns) < 200
                                       THEN Len(tm.columns) ELSE 200)
    IN  join_texts(<<>>,
            << <<"{\"table\": ">>, json_string(fqtn(tm.table)),
               <<", \"partition_candidates\": ">>,
               json_list([j \in 1..Len(tm.partition_columns) |->
                             json_string(<<tm.partition_columns[j]>>)]),
               <<", \"columns\": ">>,
               json_list([j \in 1..Len(shown) |-> json_column(shown[j])]),
               <<", \"properties_hint\": ">>, json_properties(tm.properties),
               <<"}">> >>)

\* prompt.py:29-38
_metadata_to_compact_json(metadata) ==
    json_list([k \in 1..Len(metadata) |-> json_table(metadata[k])])

\* prompt.py:41-87: the texts the template embeds
build_optimizer_prompt(original, before, metadata) ==
    [kind |-> "optimize", original_sql |-> original, candidate_sql |-> <<>>,
     error_or_feedback |-> <<>>, explain_plan_before |-> Slice(before.text, 12000),
     table_metadata_json |-> Slice(_metadata_to_compact_json(metadata), 12000)]

\* prompt.py:90-127: the texts the template embeds
build_fix_prompt(original, candidate, error_or_feedback, before, metadata) ==
    [kind |-> "fix", original_sql |-> original, candidate_sql |-> candidate,
     error_or_feedback |-> error_or_feedback,
     explain_plan_before |-> Slice(before.text, 12000),
     table_metadata_json |-> Slice(_metadata_to_compact_json(metadata), 12000)]

----------------------------------------------------------------------------
(* optimizer.py: _diff_text, _is_improved, OptimizeResponse *)

\* str.splitlines
RECURSIVE splitlines(_)
splitlines(t) ==
    IF t = <<>> THEN <<>>
    ELSE LET nl == {k \in 1..Len(t) : t[k] = "\n"} IN
         IF nl = {} THEN <<t>>
         ELSE LET k == CHOOSE x \in nl : \A y \in nl : x <= y IN
              <<SubSeq(t, 1, k - 1)>> \o splitlines(SubSeq(t, k + 1, Len(t)))

\* str(n) for one-digit n
str(n) == <<"0", "1", "2", "3", "4", "5", "6", "7", "8", "9">>[n + 1]

\* difflib._format_range_unified
_format_range_unified(start, stop) ==
    LET length == stop - start IN
    IF length = 1 THEN <<str(start + 1)>>
    ELSE <<str(IF length = 0 THEN start ELSE start + 1), ",", str(length)>>

RECURSIVE CommonPrefix(_, _)
CommonPrefix(a, b) ==
    IF a # <<>> /\ b # <<>> /\ Head(a) = Head(b)
    THEN 1 + CommonPrefix(Tail(a), Tail(b))
    ELSE 0

Reverse(a) == [k \in 1..Len(a) |-> a[Len(a) + 1 - k]]

\* difflib.unified_diff(a, b, "original.sql", "optimized.sql", lineterm=""), for
\* files short enough to fall into one hunk (at most three lines of context on
\* each side) whose differing middle parts share no line
unified_diff(a, b) ==
    IF a = b THEN <<>>
    ELSE LET pre == CommonPrefix(a, b)
             suf == CommonPrefix(Reverse(SubSeq(a, pre + 1, Len(a))),
                                 Reverse(SubSeq(b, pre + 1, Len(b))))
             same(lines) == [k \in 1..Len(lines) |-> <<" ">> \o lines[k]]
             minus(lines) == [k \in 1..Len(lines) |-> <<"-">> \o lines[k]]
             plus(lines) == [k \in 1..Len(lines) |-> <<"+">> \o lines[k]]
         IN  << <<"--- original.sql">>, <<"+++ optimized.sql">>,
                <<"@@ -">> \o _format_range_unified(0, Len(a)) \o <<" +">>
                    \o _format_range_unified(0, Len(b)) \o <<" @@">> >>
             \o same(SubSeq(a, 1, pre))
             \o minus(SubSeq(a, pre + 1, Len(a) - suf))
             \o plus(SubSeq(b, pre + 1, Len(b) - suf))
             \o same(SubSeq(a, Len(a) - suf + 1, Len(a)))

\* _diff_text with the bug of writing the file header even when nothing differs
_diff_text_with_header(a, b) ==
    Join("\n", <<<<"--- original.sql">>, <<"+++ optimized.sql">>>>
                \o unified_diff(splitlines(a), splitlines(b)))

_diff_text(a, b) == Join("\n", unified_diff(splitlines(a), splitlines(b)))

\* _is_improved with the bug of ignoring the estimates
_is_improved_any_plan(before, after) == after.ok

\* _is_improved with the bug of allowing no variance
_is_improved_no_tolerance(before, after) ==
    IF ~after.ok THEN FALSE
    ELSE IF before.estimated_rows # None /\ after.estimated_rows # None
         THEN after.estimated_rows[1] <= before.estimated_rows[1]
         ELSE TRUE

\* after.estimated_rows <= before.estimated_rows * 1.05, on whole numbers of rows
_is_improved(before, after) ==
    IF ~after.ok THEN FALSE
    ELSE IF before.estimated_rows # None /\ after.estimated_rows # None
         THEN 100 * after.estimated_rows[1] <= 105 * before.estimated_rows[1]
         ELSE TRUE

OptimizeResponse(ok, original, optimized, before, after, tables, metadata, n_attempts, diff, error, changes, assumptions, risk) ==
    [ok |-> ok, original_sql |-> original, optimized_sql |-> optimized,
     explain_before |-> before, explain_after |-> after, tables |-> tables,
     metadata |-> metadata, attempts |-> n_attempts, diff |-> diff,
     error |-> error, llm_changes |-> changes, llm_assumptions |-> assumptions,
     llm_risk |-> risk]

\* the early returns of optimizer.py:80, 94 and 110
EarlyFailure(original, before, error) ==
    OptimizeResponse(FALSE, original, None, before, None, <<>>, <<>>, 0, <<>>,
                     Some(error), None, None, None)

\* parser.py:33-46: the tables of the tree, first occurrence of each key kept
RECURSIVE Dedupe(_, _)
Dedupe(tables, seen) ==
    IF tables = <<>> THEN <<>>
    ELSE IF Head(tables).table = "" \/ Head(tables) \in seen
         THEN Dedupe(Tail(tables), seen)
         ELSE <<Head(tables)>> \o Dedupe(Tail(tables), seen \cup {Head(tables)})

----------------------------------------------------------------------------
(* The inputs of a run *)

MaxFix == 1

OriginalStatements ==
    {"SELECT a FROM t", "SELECT 1", "INSERT INTO t SELECT a FROM s", "DROP TABLE t",
     "SELECT (", "SELECT a FROM t UNION ALL SELECT a FROM t",
     "SELECT a FROM t JOIN hive.default.t u ON t.a = u.a"}

SqlInputs ==
    {None, Some(<<>>), Some(<<" ">>), Some(<<"\n", "\t">>),
     Some(<<" ", "SELECT a FROM t", "\n">>)}
    \cup {Some(<<st>>) : st \in OriginalStatements}

\* settings.py: max_fix_attempts is any int, read_only_mode any bool
SettingsValues ==
    [read_only_mode : BOOLEAN, max_fix_attempts : (0 - 2)..MaxFix,
     trino_catalog : {"hive"}, trino_schema : {"default"}]

Init ==
    /\ sql \in SqlInputs
    /\ s \in SettingsValues
    /\ pc = "start"
    /\ original_sql = <<>>
    /\ explain_before = None
    /\ table_refs = <<>>
    /\ metas = <<>>
    /\ table_cols = None
    /\ prompt = None
    /\ candidate_sql = None
    /\ explain_after = None
    /\ llm_changes = None
    /\ llm_assumptions = None
    /\ llm_risk = None
    /\ last_error = None
    /\ attempts = 0
    /\ i = 0
    /\ improved = None
    /\ response = None
    /\ exception = None
    /\ engine_log = <<>>
    /\ llm_log = <<>>
    /\ trail = <<>>

----------------------------------------------------------------------------
(* optimize_sql, step by step *)

Query(statement, reply) == [statement |-> statement, reply |-> reply]

Return(r) == /\ response' = Some(r)
             /\ pc' = "done"

Throw(e) == /\ exception' = Some(e)
            /\ pc' = "raised"

\* optimizer.py:78-105
EntryGuards ==
    /\ pc = "start"
    /\ LET original == strip(IF sql = None THEN <<>> ELSE sql[1]) IN
       /\ original_sql' = original
       /\ IF original = <<>>
          THEN Return(EarlyFailure(<<>>,
                   ExplainResult(FALSE, <<>>, Some(<<"Empty SQL">>), None),
                   <<"Empty SQL">>))
          ELSE IF s.read_only_mode /\ ~_is_read_only_select(original)
          THEN Return(EarlyFailure(original,
                   ExplainResult(FALSE, <<>>,
                       Some(<<"Only SELECT queries are allowed in read_only_mode">>), None),
                   <<"Only SELECT queries are allowed in read_only_mode">>))
          ELSE /\ pc' = "explain_original"
               /\ UNCHANGED response
    /\ UNCHANGED <<prompt, table_cols, sql, s, explain_before, table_refs, metas, candidate_sql,
                   explain_after, llm_changes, llm_assumptions, llm_risk,
                   last_error, attempts, i, improved, exception, engine_log, llm_log,
                   trail>>

\* optimizer.py:107-121
ExplainOriginal ==
    /\ pc = "explain_original"
    /\ \E reply \in ExplainReplies :
         LET before == run_explain(reply) IN
         /\ engine_log' = Append(engine_log, Query(ExplainStatement(original_sql), reply))
         /\ explain_before' = Some(before)
         /\ IF ~before.ok
            THEN Return(EarlyFailure(original_sql, before,
                     <<"EXPLAIN failed for original SQL: ">> \o Format(before.error)))
            ELSE /\ pc' = "parse_tables"
                 /\ UNCHANGED response
    /\ UNCHANGED <<prompt, table_cols, sql, s, original_sql, table_refs, metas, candidate_sql,
                   explain_after, llm_changes, llm_assumptions, llm_risk,
                   last_error, attempts, i, improved, exception, llm_log, trail>>

\* optimizer.py:123-125 with parser.py:33-48; sqlglot's ParseError is not caught
ParseTables ==
    /\ pc = "parse_tables"
    /\ LET tree == parse_one(original_sql) IN
       IF tree.error
       THEN /\ Throw(<<"ParseError">>)
            /\ UNCHANGED table_refs
       ELSE /\ table_refs' = Dedupe(tree.tables, {})
            /\ pc' = IF table_refs' = <<>> THEN "attempt" ELSE "fetch_metadata"
            /\ UNCHANGED exception
    /\ UNCHANGED <<prompt, table_cols, sql, s, original_sql, explain_before, metas, candidate_sql,
                   explain_after, llm_changes, llm_assumptions, llm_risk,
                   last_error, attempts, i, improved, response, engine_log, llm_log,
                   trail>>

\* metadata.py:93 with fetch_table_columns: the DESCRIBE of the next table; an
\* exception of client.query is caught nowhere
FetchColumns ==
    /\ pc = "fetch_metadata"
    /\ LET t == table_refs[Len(metas) + 1]
           full == _split_fqtn_for_trino(t, s.trino_catalog, s.trino_schema)
       IN  \E d \in DescribeReplies :
             /\ engine_log' = Append(engine_log, Query(DescribeStatement(full), d))
             /\ IF d.raises
                THEN /\ Throw(d.error)
                     /\ UNCHANGED table_cols
                ELSE /\ table_cols' = Some(ColumnInfos(d.rows))
                     /\ pc' = "fetch_properties"
                     /\ UNCHANGED exception
    /\ UNCHANGED <<prompt, sql, s, original_sql, explain_before, table_refs, metas, candidate_sql,
                   explain_after, llm_changes, llm_assumptions, llm_risk,
                   last_error, attempts, i, improved, response, llm_log, trail>>

\* metadata.py:94-96 with fetch_table_properties_best_effort: the SHOW CREATE TABLE
\* of the same table and the entry of the table; an exception of client.query is
\* caught nowhere
FetchProperties ==
    /\ pc = "fetch_properties"
    /\ LET t == table_refs[Len(metas) + 1]
           full == _split_fqtn_for_trino(t, s.trino_catalog, s.trino_schema)
       IN  \E sh \in ShowCreateReplies(full) :
             LET props == TableProperties(sh.rows) IN
             /\ engine_log' = Append(engine_log, Query(ShowCreateStatement(full), sh))
             /\ IF sh.raises
                THEN /\ Throw(sh.error)
                     /\ UNCHANGED metas
                ELSE /\ metas' = Append(metas,
                            TableMetadata(full, table_cols[1],
                                infer_partition_columns_from_properties(props, table_cols[1]),
                                props))
                     /\ pc' = IF Len(metas') = Len(table_refs)
                              THEN "attempt" ELSE "fetch_metadata"
                     /\ UNCHANGED exception
    /\ UNCHANGED <<prompt, sql, s, original_sql, explain_before, table_refs, table_cols,
                   candidate_sql, explain_after, llm_changes, llm_assumptions, llm_risk,
                   last_error, attempts, i, improved, response, llm_log, trail>>

\* range_stop with the bug of one iteration too many
range_stop_off_by_one(settings) == settings.max_fix_attempts + 2

\* range(s.max_fix_attempts + 1), optimizer.py:147
range_stop(settings) == settings.max_fix_attempts + 1

\* attempt_number with the bug of counting from zero
attempt_number_from_zero(index) == index

\* attempts = i + 1, optimizer.py:148
attempt_number(index) == index + 1

\* fix_feedback with the bug of not passing the reason on
fix_feedback_unknown(error) == <<"Unknown failure">>

\* last_error or "Unknown failure", optimizer.py:156
fix_feedback(error) == OrElse(error, <<"Unknown failure">>)

\* what a finished attempt leaves behind: the check that ended it, the value it
\* gave last_error, the candidate and the explain result it worked on and the
\* engine's error, if any
Attempt(stage, reason, candidate, after, engine_error) ==
    [stage |-> stage, reason |-> reason, candidate |-> candidate,
     after |-> after, engine_error |-> engine_error]

\* `continue`, and the end of the loop body: the next iteration
Continue(stage, reason, candidate, after, engine_error) ==
    /\ last_error' = Some(reason)
    /\ trail' = Append(trail, Attempt(stage, Some(reason), candidate, after, engine_error))
    /\ i' = i + 1
    /\ pc' = "attempt"

\* optimizer.py:147-159: the loop takes its next value, counts the attempt and has
\* the prompt of the iteration ready (line 136 for the first, 153-159 for a fix)
BeginAttempt ==
    /\ pc = "attempt"
    /\ i < range_stop(s)
    /\ attempts' = attempt_number(i)
    /\ prompt' = Some(IF i = 0
                      THEN build_optimizer_prompt(original_sql, explain_before[1], metas)
                      ELSE build_fix_prompt(original_sql, OrElse(candidate_sql, <<>>),
                               fix_feedback(last_error), explain_before[1], metas))
    /\ pc' = "model_call"
    /\ UNCHANGED <<table_cols, sql, s, original_sql, explain_before, table_refs, metas,
                   candidate_sql, explain_after, llm_changes, llm_assumptions, llm_risk,
                   last_error, i, improved, response, exception, engine_log, llm_log,
                   trail>>

\* optimizer.py:150-173: the model call of the iteration and the checks on its result
ProposeCandidate ==
    /\ pc = "model_call"
    /\ \E reply \in LLMReplies :
         LET res == optimize(reply)
         IN  /\ llm_log' = Append(llm_log, [prompt |-> prompt[1], reply |-> reply])
             /\ IF ~res.ok \/ ~Truthy(res.optimized_sql)
                THEN /\ Continue("llm", OrElse(res.error, <<"LLM returned empty output">>),
                                 candidate_sql, None, None)
                     /\ UNCHANGED <<candidate_sql, llm_changes, llm_assumptions,
                                    llm_risk, exception>>
                ELSE IF res.optimized_sql[1].type # "string"
                THEN /\ Throw(<<"AttributeError">>)
                     /\ UNCHANGED <<candidate_sql, llm_changes, llm_assumptions,
                                    llm_risk, last_error, trail, i>>
                ELSE LET candidate == strip(res.optimized_sql[1].str) IN
                     /\ candidate_sql' = Some(candidate)
                     /\ llm_changes' = list_or_empty(res.changes)
                     /\ llm_assumptions' = list_or_empty(res.assumptions)
                     /\ llm_risk' = risk_or_unknown(res.risk)
                     /\ UNCHANGED exception
                     /\ IF s.read_only_mode /\ ~_is_read_only_select(candidate)
                        THEN Continue("gate",
                                 <<"Candidate SQL is not SELECT-only (read_only_mode).">>,
                                 Some(candidate), None, None)
                        ELSE /\ pc' = "explain_candidate"
                             /\ UNCHANGED <<last_error, trail, i>>
    /\ UNCHANGED <<prompt, table_cols, sql, s, original_sql, explain_before, table_refs, metas,
                   explain_after, attempts, improved, response, engine_log>>

\* optimizer.py:175-199: the explain of the candidate and the improvement check
ExplainCandidate ==
    /\ pc = "explain_candidate"
    /\ \E reply \in ExplainReplies :
         LET after == run_explain(reply) IN
         /\ engine_log' = Append(engine_log, Query(ExplainStatement(candidate_sql[1]), reply))
         /\ explain_after' = Some(after)
         /\ IF ~after.ok
            THEN /\ Continue("explain", <<"EXPLAIN failed: ">> \o Format(after.error),
                             candidate_sql, Some(after), Some(reply.error))
                 /\ UNCHANGED <<improved, response>>
            ELSE /\ improved' = Some(_is_improved(explain_before[1], after))
                 /\ IF improved'[1]
                    THEN /\ Return(OptimizeResponse(TRUE, original_sql, candidate_sql,
                                explain_before[1], Some(after),
                                [k \in 1..Len(table_refs) |-> fqtn(table_refs[k])], metas,
                                attempts, _diff_text(original_sql, candidate_sql[1]), None,
                                llm_changes, llm_assumptions, llm_risk))
                         /\ trail' = Append(trail,
                                Attempt("accepted", None, candidate_sql, Some(after), None))
                         /\ UNCHANGED <<last_error, i>>
                    ELSE /\ Continue("improve",
                                <<"Candidate SQL did not appear improved based on EXPLAIN signals.">>,
                                candidate_sql, Some(after), None)
                         /\ UNCHANGED response
    /\ UNCHANGED <<prompt, table_cols, sql, s, original_sql, explain_before, table_refs, metas,
                   candidate_sql, llm_changes, llm_assumptions, llm_risk, attempts,
                   exception, llm_log>>

\* optimizer.py:201-217: the loop is exhausted
ReturnFailure ==
    /\ pc = "attempt"
    /\ i >= range_stop(s)
    /\ Return(OptimizeResponse(FALSE, original_sql, candidate_sql, explain_before[1],
           explain_after, [k \in 1..Len(table_refs) |-> fqtn(table_refs[k])], metas,
           attempts,
           IF candidate_sql # None /\ candidate_sql[1] # <<>>
           THEN _diff_text(original_sql, candidate_sql[1]) ELSE <<>>,
           Some(OrElse(last_error, <<"Failed to produce a valid optimized query">>)),
           llm_changes, llm_assumptions, llm_risk))
    /\ UNCHANGED <<prompt, table_cols, sql, s, original_sql, explain_before, table_refs, metas,
                   candidate_sql, explain_after, llm_changes, llm_assumptions,
                   llm_risk, last_error, attempts, i, improved, exception,
                   engine_log, llm_log, trail>>

Next ==
    \/ EntryGuards
    \/ ExplainOriginal
    \/ ParseTables
    \/ FetchColumns
    \/ FetchProperties
    \/ BeginAttempt
    \/ ProposeCandidate
    \/ ExplainCandidate
    \/ ReturnFailure

Spec == Init /\ [][Next]_vars

\* the same run when every call of the engine and of the model returns, with a
\* value or an exception: a step that can be taken is taken
FairSpec == Spec /\ WF_vars(Next)

\* the runs on one statement with a loop one iteration longer than the longest of
\* Spec: max_fix_attempts = MaxFix + 1
InitLongRun ==
    /\ sql = Some(<<"SELECT a FROM t">>)
    /\ s \in [read_only_mode : BOOLEAN, max_fix_attempts : {MaxFix + 1},
              trino_catalog : {"hive"}, trino_schema : {"default"}]
    /\ pc = "start"
    /\ original_sql = <<>>
    /\ explain_before = None
    /\ table_refs = <<>>
    /\ metas = <<>>
    /\ table_cols = None
    /\ prompt = None
    /\ candidate_sql = None
    /\ explain_after = None
    /\ llm_changes = None
    /\ llm_assumptions = None
    /\ llm_risk = None
    /\ last_error = None
    /\ attempts = 0
    /\ i = 0
    /\ improved = None
    /\ response = None
    /\ exception = None
    /\ engine_log = <<>>
    /\ llm_log = <<>>
    /\ trail = <<>>

SpecLongRun == InitLongRun /\ [][Next]_vars

----------------------------------------------------------------------------
(* _is_improved on its own: every pair of explain results *)

EstimateValues == {0, 20, 21, 22, 1000, 1050, 1051}

ExplainResultValues ==
    {ExplainResult(FALSE, <<>>, Some(<<"line 1:8: syntax error near X">>), None),
     ExplainResult(TRUE, <<"Output[a]">>, None, None)}
    \cup {ExplainResult(TRUE, <<"Output[a]">>, None, Some(n)) : n \in EstimateValues}

InitIsImproved ==
    /\ sql = None
    /\ s \in {x \in SettingsValues : x.read_only_mode /\ x.max_fix_attempts = 0}
    /\ pc = "is_improved"
    /\ original_sql = <<>>
    /\ explain_before \in {Some(r) : r \in ExplainResultValues}
    /\ table_refs = <<>>
    /\ metas = <<>>
    /\ table_cols = None
    /\ prompt = None
    /\ candidate_sql = None
    /\ explain_after \in {Some(r) : r \in ExplainResultValues}
    /\ llm_changes = None
    /\ llm_assumptions = None
    /\ llm_risk = None
    /\ last_error = None
    /\ attempts = 0
    /\ i = 0
    /\ improved = None
    /\ response = None
    /\ exception = None
    /\ engine_log = <<>>
    /\ llm_log = <<>>
    /\ trail = <<>>

CallIsImproved ==
    /\ pc = "is_improved"
    /\ improved' = Some(_is_improved(explain_before[1], explain_after[1]))
    /\ pc' = "is_improved_returned"
    /\ UNCHANGED <<prompt, table_cols, sql, s, original_sql, explain_before, table_refs, metas,
                   candidate_sql, explain_after, llm_changes, llm_assumptions,
                   llm_risk, last_error, attempts, i, response, exception,
                   engine_log, llm_log, trail>>

NextIsImproved == CallIsImproved

SpecIsImproved == InitIsImproved /\ [][NextIsImproved]_vars

----------------------------------------------------------------------------
(* infer_partition_columns_from_properties on its own: every list of up to  *)
(* three columns, with and without table properties                         *)

ColumnNames == {"id", "value", "ds", "DS", "Date", "HOUR", "dt", "dsx"}

ColumnLists ==
    UNION {[1..n -> [name : ColumnNames, type : {"bigint"}]] : n \in 0..3}

PropertyValues ==
    {TableProperties(<<>>),
     TableProperties(<<<<Some("CREATE TABLE t (id bigint) WITH (format = 'ORC')")>>>>)}

InitInferPartitions ==
    /\ sql = None
    /\ s \in {x \in SettingsValues : x.read_only_mode /\ x.max_fix_attempts = 0}
    /\ pc = "infer_partitions"
    /\ original_sql = <<>>
    /\ explain_before = None
    /\ table_refs = <<TableRef("", "", "t")>>
    /\ metas \in {<<TableMetadata(TableRef("hive", "default", "t"), cols, <<>>, props)>> :
                     cols \in ColumnLists, props \in PropertyValues}
    /\ table_cols = None
    /\ prompt = None
    /\ candidate_sql = None
    /\ explain_after = None
    /\ llm_changes = None
    /\ llm_assumptions = None
    /\ llm_risk = None
    /\ last_error = None
    /\ attempts = 0
    /\ i = 0
    /\ improved = None
    /\ response = None
    /\ exception = None
    /\ engine_log = <<>>
    /\ llm_log = <<>>
    /\ trail = <<>>

\* metadata.py:95
CallInferPartitions ==
    /\ pc = "infer_partitions"
    /\ metas' = <<[metas[1] EXCEPT !.partition_columns =
                     infer_partition_columns_from_properties(metas[1].properties,
                                                             metas[1].columns)]>>
    /\ pc' = "infer_partitions_returned"
    /\ UNCHANGED <<prompt, table_cols, sql, s, original_sql, explain_before, table_refs, candidate_sql,
                   explain_after, llm_changes, llm_assumptions, llm_risk, last_error,
                   attempts, i, improved, response, exception, engine_log, llm_log,
                   trail>>

NextInferPartitions == CallInferPartitions

SpecInferPartitions == InitInferPartitions /\ [][NextInferPartitions]_vars

----------------------------------------------------------------------------
(* Two invocations of optimize_sql at once, as two requests to the service  *)
(* (service.py:24-30) make them.  Here every variable maps an invocation to *)
(* the value the variable has in it; the locals of the loop live in the     *)
(* frame of the call, the histories belong to the collaborator handles the  *)
(* request built for itself.  The runs start where the loop's locals are    *)
(* initialised (optimizer.py:138), the earlier stages having succeeded.     *)

Runs == {"r1", "r2"}

\* Frame with the bug of keeping the loop's state on a field all runs share
Frame_shared(r) == "r1"

\* the frame that holds the locals of invocation r: its own
Frame(r) == r

\* the locals of the loop in frame f
Locals(f) ==
    [candidate_sql |-> candidate_sql[f], explain_after |-> explain_after[f],
     llm_changes |-> llm_changes[f], llm_assumptions |-> llm_assumptions[f],
     llm_risk |-> llm_risk[f], last_error |-> last_error[f],
     attempts |-> attempts[f], i |-> i[f]]

\* optimizer.py:138-146
InitialLocals ==
    [candidate_sql |-> None, explain_after |-> None, llm_changes |-> None,
     llm_assumptions |-> None, llm_risk |-> None, last_error |-> None,
     attempts |-> 0, i |-> 0]

\* assignment of the locals in frame f
Store(f, loc) ==
    /\ candidate_sql' = [candidate_sql EXCEPT ![f] = loc.candidate_sql]
    /\ explain_after' = [explain_after EXCEPT ![f] = loc.explain_after]
    /\ llm_changes' = [llm_changes EXCEPT ![f] = loc.llm_changes]
    /\ llm_assumptions' = [llm_assumptions EXCEPT ![f] = loc.llm_assumptions]
    /\ llm_risk' = [llm_risk EXCEPT ![f] = loc.llm_risk]
    /\ last_error' = [last_error EXCEPT ![f] = loc.last_error]
    /\ attempts' = [attempts EXCEPT ![f] = loc.attempts]
    /\ i' = [i EXCEPT ![f] = loc.i]

\* what the earlier stages of invocation r left: the arguments and the values of
\* optimizer.py:78-136
Context(r) ==
    [s |-> s[r], original_sql |-> original_sql[r],
     explain_before |-> explain_before[r][1], table_refs |-> table_refs[r],
     metas |-> metas[r]]

\* optimizer.py:150-160: the prompt of the iteration
PromptOf(loc, ctx) ==
    IF loc.i = 0
    THEN build_optimizer_prompt(ctx.original_sql, ctx.explain_before, ctx.metas)
    ELSE build_fix_prompt(ctx.original_sql, OrElse(loc.candidate_sql, <<>>),
             fix_feedback(loc.last_error), ctx.explain_before, ctx.metas)

\* `continue` with a reason
NextIteration(loc, reason) ==
    [next |-> "attempt", response |-> None,
     loc |-> [loc EXCEPT !.last_error = Some(reason), !.i = loc.i + 1]]

\* optimizer.py:148 on the locals: the attempt is counted
EnterAttempt(loc) == [loc EXCEPT !.attempts = attempt_number(loc.i)]

\* optimizer.py:150-173 on the locals: the reply of the model and the checks on it
ModelCall(entered, ctx, reply) ==
    LET res == optimize(reply)
    IN  IF ~res.ok \/ ~Truthy(res.optimized_sql)
        THEN NextIteration(entered, OrElse(res.error, <<"LLM returned empty output">>))
        ELSE IF res.optimized_sql[1].type # "string"
        THEN [next |-> "raised", response |-> None, loc |-> entered]
        ELSE LET candidate == strip(res.optimized_sql[1].str)
                 taken == [entered EXCEPT
                              !.candidate_sql = Some(candidate),
                              !.llm_changes = list_or_empty(res.changes),
                              !.llm_assumptions = list_or_empty(res.assumptions),
                              !.llm_risk = risk_or_unknown(res.risk)]
             IN  IF ctx.s.read_only_mode /\ ~_is_read_only_select(candidate)
                 THEN NextIteration(taken,
                          <<"Candidate SQL is not SELECT-only (read_only_mode).">>)
                 ELSE [next |-> "explain_candidate", response |-> None, loc |-> taken]

\* optimizer.py:175-199 on the locals: the explain of the candidate and the
\* improvement check
CandidateExplained(loc, ctx, reply) ==
    LET after == run_explain(reply)
        seen == [loc EXCEPT !.explain_after = Some(after)]
    IN  IF ~after.ok
        THEN NextIteration(seen, <<"EXPLAIN failed: ">> \o Format(after.error))
        ELSE IF _is_improved(ctx.explain_before, after)
        THEN [next |-> "done", loc |-> seen,
              response |-> Some(OptimizeResponse(TRUE, ctx.original_sql,
                  seen.candidate_sql, ctx.explain_before, Some(after),
                  [k \in 1..Len(ctx.table_refs) |-> fqtn(ctx.table_refs[k])],
                  ctx.metas, seen.attempts,
                  _diff_text(ctx.original_sql, seen.candidate_sql[1]), None,
                  seen.llm_changes, seen.llm_assumptions, seen.llm_risk))]
        ELSE NextIteration(seen,
                 <<"Candidate SQL did not appear improved based on EXPLAIN signals.">>)

\* optimizer.py:201-217 on the locals
FailureResponse(loc, ctx) ==
    OptimizeResponse(FALSE, ctx.original_sql, loc.candidate_sql, ctx.explain_before,
        loc.explain_after,
        [k \in 1..Len(ctx.table_refs) |-> fqtn(ctx.table_refs[k])], ctx.metas,
        loc.attempts,
        IF loc.candidate_sql # None /\ loc.candidate_sql[1] # <<>>
        THEN _diff_text(ctx.original_sql, loc.candidate_sql[1]) ELSE <<>>,
        Some(OrElse(loc.last_error, <<"Failed to produce a valid optimized query">>)),
        loc.llm_changes, loc.llm_assumptions, loc.llm_risk)

\* the baseline both requests got from the engine
BaselineReply == Rows(<<<<Some("Estimates: {rows: 1000 (9kB)}"), Some("x")>>>>)

\* what the engine handle of a request answered before the loop: the EXPLAIN of
\* the original and, for each table, a DESCRIBE and a SHOW CREATE TABLE that
\* returned no row
RECURSIVE MetadataRequests(_)
MetadataRequests(metadata) ==
    IF metadata = <<>> THEN <<>>
    ELSE <<Query(DescribeStatement(Head(metadata).table), Rows(<<>>)),
           Query(ShowCreateStatement(Head(metadata).table), Rows(<<>>))>>
         \o MetadataRequests(Tail(metadata))

BaselineRequests(original, metadata) ==
    <<Query(ExplainStatement(original), BaselineReply)>> \o MetadataRequests(metadata)

\* Settings() of a request (service.py:26)
RequestSettings(read_only, fixes) ==
    [read_only_mode |-> read_only, max_fix_attempts |-> fixes,
     trino_catalog |-> "hive", trino_schema |-> "default"]

InitConcurrent ==
    /\ sql = [r \in Runs |-> Some(IF r = "r1" THEN <<"SELECT 1">> ELSE <<"SELECT a FROM t">>)]
    /\ \E ro \in [Runs -> BOOLEAN] :
          s = [r \in Runs |-> RequestSettings(ro[r], IF r = "r1" THEN 1 ELSE 0)]
    /\ pc = [r \in Runs |-> "enter_loop"]
    /\ original_sql = [r \in Runs |-> strip(sql[r][1])]
    /\ explain_before = [r \in Runs |-> Some(run_explain(BaselineReply))]
    /\ table_refs = [r \in Runs |-> Dedupe(parse_one(original_sql[r]).tables, {})]
    /\ metas = [r \in Runs |->
                  [k \in 1..Len(table_refs[r]) |->
                      TableMetadata(_split_fqtn_for_trino(table_refs[r][k], "hive", "default"),
                                    <<>>, <<>>, {})]]
    /\ table_cols = None
    /\ prompt = [r \in Runs |-> None]
    /\ candidate_sql = [r \in Runs |-> None]
    /\ explain_after = [r \in Runs |-> None]
    /\ llm_changes = [r \in Runs |-> None]
    /\ llm_assumptions = [r \in Runs |-> None]
    /\ llm_risk = [r \in Runs |-> None]
    /\ last_error = [r \in Runs |-> None]
    /\ attempts = [r \in Runs |-> 0]
    /\ i = [r \in Runs |-> 0]
    /\ improved = None
    /\ response = [r \in Runs |-> None]
    /\ exception = [r \in Runs |-> None]
    /\ engine_log = [r \in Runs |-> BaselineRequests(original_sql[r], metas[r])]
    /\ llm_log = [r \in Runs |-> <<>>]
    /\ trail = <<>>

\* optimizer.py:138-146 in invocation r
EnterLoop(r) ==
    /\ pc[r] = "enter_loop"
    /\ Store(Frame(r), InitialLocals)
    /\ pc' = [pc EXCEPT ![r] = "attempt"]
    /\ UNCHANGED <<prompt, table_cols, sql, s, original_sql, explain_before, table_refs, metas, improved,
                   response, exception, engine_log, llm_log, trail>>

\* optimizer.py:147-159 in invocation r
BeginAttemptIn(r) ==
    /\ pc[r] = "attempt"
    /\ i[Frame(r)] < range_stop(s[r])
    /\ Store(Frame(r), EnterAttempt(Locals(Frame(r))))
    /\ prompt' = [prompt EXCEPT ![r] = Some(PromptOf(Locals(Frame(r)), Context(r)))]
    /\ pc' = [pc EXCEPT ![r] = "model_call"]
    /\ UNCHANGED <<table_cols, sql, s, original_sql, explain_before, table_refs, metas,
                   improved, response, exception, engine_log, llm_log, trail>>

\* optimizer.py:150-173 in invocation r
ProposeCandidateIn(r) ==
    /\ pc[r] = "model_call"
    /\ \E reply \in LLMReplies :
         LET step == ModelCall(Locals(Frame(r)), Context(r), reply)
         IN  /\ llm_log' = [llm_log EXCEPT
                                ![r] = Append(@, [prompt |-> prompt[r][1],
                                                  reply |-> reply])]
             /\ Store(Frame(r), step.loc)
             /\ pc' = [pc EXCEPT ![r] = step.next]
             /\ exception' = [exception EXCEPT
                                 ![r] = IF step.next = "raised"
                                        THEN Some(<<"AttributeError">>) ELSE @]
    /\ UNCHANGED <<prompt, table_cols, sql, s, original_sql, explain_before, table_refs, metas, improved,
                   response, engine_log, trail>>

\* optimizer.py:175-199 in invocation r
ExplainCandidateIn(r) ==
    /\ pc[r] = "explain_candidate"
    /\ \E reply \in ExplainReplies :
         LET loc == Locals(Frame(r))
             step == CandidateExplained(loc, Context(r), reply)
         IN  /\ engine_log' = [engine_log EXCEPT
                                  ![r] = Append(@, Query(ExplainStatement(loc.candidate_sql[1]),
                                                         reply))]
             /\ Store(Frame(r), step.loc)
             /\ pc' = [pc EXCEPT ![r] = step.next]
             /\ response' = [response EXCEPT ![r] = step.response]
    /\ UNCHANGED <<prompt, table_cols, sql, s, original_sql, explain_before, table_refs, metas, improved,
                   exception, llm_log, trail>>

\* optimizer.py:201-217 in invocation r
ReturnFailureIn(r) ==
    /\ pc[r] = "attempt"
    /\ i[Frame(r)] >= range_stop(s[r])
    /\ response' = [response EXCEPT
                       ![r] = Some(FailureResponse(Locals(Frame(r)), Context(r)))]
    /\ pc' = [pc EXCEPT ![r] = "done"]
    /\ UNCHANGED <<prompt, table_cols, sql, s, original_sql, explain_before, table_refs, metas,
                   candidate_sql, explain_after, llm_changes, llm_assumptions,
                   llm_risk, last_error, attempts, i, improved, exception,
                   engine_log, llm_log, trail>>

NextConcurrent ==
    \E r \in Runs :
        \/ EnterLoop(r)
        \/ BeginAttemptIn(r)
        \/ ProposeCandidateIn(r)
        \/ ExplainCandidateIn(r)
        \/ ReturnFailureIn(r)

SpecConcurrent == InitConcurrent /\ [][NextConcurrent]_vars

----------------------------------------------------------------------------
(* Properties *)

IsInfix(needle, hay) ==
    \E k \in 0..(Len(hay) - Len(needle)) : SubSeq(hay, k + 1, k + Len(needle)) = needle

Returned == pc = "done" /\ response # None

InputIsBlank == sql = None \/ \A k \in 1..Len(sql[1]) : sql[1][k] \in Whitespace

\* the statement is a query and nothing else: it parses and the tree is a Select
\* or a set operation of Selects
IsQueryOnly(text) ==
    ~parse_one(text).error /\ parse_one(text).root \in {"Select", "Union"}

\* the candidate's estimate is at most 5% above the baseline's
Within5Percent(before, after) ==
    100 * after.estimated_rows[1] <= 105 * before.estimated_rows[1]

BothEstimated(before, after) ==
    before.estimated_rows # None /\ after.estimated_rows # None

\* C1: an absent, empty or all-whitespace input ends the run at the entry guard
\* with a failure outcome, attempts = 0, an error, and no engine or model call.
C1_BlankInputRejected ==
    (InputIsBlank /\ pc # "start") =>
        /\ Returned
        /\ ~response[1].ok
        /\ response[1].attempts = 0
        /\ response[1].error # None /\ response[1].error[1] # <<>>
        /\ engine_log = <<>>
        /\ llm_log = <<>>

C1_Witness ==
    /\ Returned
    /\ sql # None /\ sql[1] # <<>> /\ InputIsBlank
    /\ s.read_only_mode = FALSE

\* C2: in read-only mode a non-empty input that is not a query-only statement ends
\* the run with a failure outcome, attempts = 0, and no engine or model call.
C2_NonQueryRejected ==
    (pc # "start" /\ original_sql # <<>> /\ s.read_only_mode /\ ~IsQueryOnly(original_sql)) =>
        /\ Returned
        /\ ~response[1].ok
        /\ response[1].attempts = 0
        /\ engine_log = <<>>
        /\ llm_log = <<>>

BaselineExplainFailed == engine_log # <<>> /\ engine_log[1].reply.raises

\* C3: when the explain of the original SQL fails the run ends at once: failure,
\* attempts = 0, no explain_after, the engine's error inside the outcome's error,
\* no metadata request and no model call.
C3_BaselineFailureEndsRun ==
    BaselineExplainFailed =>
        /\ Returned
        /\ ~response[1].ok
        /\ response[1].attempts = 0
        /\ response[1].explain_after = None
        /\ response[1].error # None
        /\ IsInfix(engine_log[1].reply.error, response[1].error[1])
        /\ Len(engine_log) = 1
        /\ llm_log = <<>>

C3_Witness == BaselineExplainFailed /\ Returned /\ response[1].explain_before.error # None

\* C4 as claimed: in every outcome attempts <= max_fix_attempts + 1 and attempts is
\* the number of model calls.
C4_AttemptsWithinBound ==
    Returned =>
        /\ response[1].attempts <= s.max_fix_attempts + 1
        /\ response[1].attempts = Len(llm_log)

\* C4 as amended: in every outcome attempts <= max(max_fix_attempts + 1, 0) and
\* attempts is the number of model calls.
C4_AttemptsWithinClampedBound ==
    Returned =>
        /\ response[1].attempts <= (IF s.max_fix_attempts + 1 < 0 THEN 0
                                    ELSE s.max_fix_attempts + 1)
        /\ response[1].attempts = Len(llm_log)

C4_Witness ==
    /\ Returned
    /\ response[1].attempts = s.max_fix_attempts + 1
    /\ response[1].attempts >= 2
    /\ Len(llm_log) = response[1].attempts

\* C5: a success outcome has optimized_sql, a successful explain_after and, when
\* both estimates exist, a final estimate at most 1.05 times the baseline's; a
\* failure outcome has a non-empty error.
C5_OutcomeInvariant ==
    Returned =>
        /\ response[1].ok =>
              /\ response[1].optimized_sql # None
              /\ response[1].explain_after # None
              /\ response[1].explain_after[1].ok
              /\ BothEstimated(response[1].explain_before, response[1].explain_after[1])
                    => Within5Percent(response[1].explain_before,
                                      response[1].explain_after[1])
        /\ ~response[1].ok =>
              /\ response[1].error # None
              /\ response[1].error[1] # <<>>

C5_Witness ==
    /\ Returned
    /\ response[1].ok
    /\ BothEstimated(response[1].explain_before, response[1].explain_after[1])
    /\ response[1].explain_after[1].estimated_rows[1]
          > response[1].explain_before.estimated_rows[1]

\* C6 as claimed: _is_improved is true exactly when the candidate explain succeeded
\* and either neither side has an estimate or both have one and the candidate's is
\* at most 5% above the baseline's.
C6_ImprovedIffNeitherOrBoth ==
    pc = "is_improved_returned" =>
        LET before == explain_before[1]
            after == explain_after[1]
        IN  improved[1] <=>
              /\ after.ok
              /\ \/ before.estimated_rows = None /\ after.estimated_rows = None
                 \/ BothEstimated(before, after) /\ Within5Percent(before, after)

\* C6 as amended: _is_improved is true exactly when the candidate explain succeeded
\* and either at least one side has no estimate or both have one and the
\* candidate's is at most 5% above the baseline's.
C6_ImprovedIffMissingOrWithin ==
    pc = "is_improved_returned" =>
        LET before == explain_before[1]
            after == explain_after[1]
        IN  improved[1] <=>
              /\ after.ok
              /\ \/ before.estimated_rows = None
                 \/ after.estimated_rows = None
                 \/ BothEstimated(before, after) /\ Within5Percent(before, after)

C6_Witness ==
    /\ pc = "is_improved_returned"
    /\ improved = Some(TRUE)
    /\ explain_before[1].estimated_rows = Some(1000)
    /\ explain_after[1].ok
    /\ explain_after[1].estimated_rows = None

\* the model calls whose reply carried a non-empty string as optimized_sql
Produced ==
    {k \in 1..Len(llm_log) :
        LET r == llm_log[k].reply IN
        /\ r.kind = "object"
        /\ r.optimized_sql # None
        /\ r.optimized_sql[1].type = "string"
        /\ r.optimized_sql[1].str # <<>>}

\* the last candidate the model produced, as the run takes it (stripped)
LastProduced ==
    LET k == CHOOSE x \in Produced : \A y \in Produced : y <= x IN
    strip(llm_log[k].reply.optimized_sql[1].str)

Exhausted == Returned /\ ~response[1].ok /\ response[1].explain_before.ok

NotImprovedMessage ==
    <<"Candidate SQL did not appear improved based on EXPLAIN signals.">>

\* C7, for a bound max_fix_attempts >= 0: when the baseline succeeded and no attempt
\* was accepted the outcome is a failure with attempts = max_fix_attempts + 1, the
\* error is the reason the final attempt recorded (the "did not appear improved"
\* message when the final candidate's estimate was more than 5% above the
\* baseline's), optimized_sql is the last candidate the model produced (absent if
\* none) and diff is the diff of the original against that candidate (empty if
\* none).
C7_ExhaustionOutcome ==
    (Exhausted /\ s.max_fix_attempts >= 0) =>
        /\ response[1].attempts = s.max_fix_attempts + 1
        /\ trail # <<>>
        /\ response[1].error = trail[Len(trail)].reason
        /\ LET last == trail[Len(trail)] IN
           ( /\ last.after # None
             /\ last.after[1].ok
             /\ BothEstimated(response[1].explain_before, last.after[1])
             /\ ~Within5Percent(response[1].explain_before, last.after[1]) )
           => response[1].error = Some(NotImprovedMessage)
        /\ response[1].optimized_sql =
              (IF Produced = {} THEN None ELSE Some(LastProduced))
        /\ response[1].diff =
              (IF Produced = {} THEN <<>> ELSE _diff_text(original_sql, LastProduced))

\* C8: the first model call gets the initial prompt and every later one a fix
\* prompt; the feedback in the fix prompt of attempt k is the reason attempt k-1
\* recorded, and holds the engine's error message verbatim when attempt k-1 failed
\* on the explain of its candidate.
C8_FixPromptCarriesPriorReason ==
    \A k \in 1..Len(llm_log) :
        LET asked == llm_log[k].prompt IN
        /\ k = 1 => asked.kind = "optimize"
        /\ k >= 2 =>
              /\ asked.kind = "fix"
              /\ Len(trail) >= k - 1
              /\ trail[k - 1].reason = Some(asked.error_or_feedback)
              /\ trail[k - 1].stage = "explain" =>
                    IsInfix(trail[k - 1].engine_error[1], asked.error_or_feedback)

C8_Witness ==
    /\ Len(llm_log) >= 2
    /\ trail[1].stage = "explain"
    /\ llm_log[2].prompt.kind = "fix"

\* an attempt whose candidate was explained successfully with an estimate that
\* satisfies the improvement predicate
Acceptable(attempt) ==
    /\ attempt.candidate # None
    /\ attempt.after # None
    /\ attempt.after[1].ok
    /\ BothEstimated(explain_before[1], attempt.after[1])
          => Within5Percent(explain_before[1], attempt.after[1])

C9_StopsAtAcceptance ==
    \A k \in 1..Len(trail) :
        Acceptable(trail[k]) =>
            /\ k = Len(trail)
            /\ Returned
            /\ response[1].ok
            /\ response[1].optimized_sql = trail[k].candidate
            /\ response[1].attempts = k
            /\ Len(llm_log) = k
            /\ engine_log[Len(engine_log)].statement
                  = ExplainStatement(trail[k].candidate[1])

\* C9: the run stops at the first attempt whose candidate passes the gate, explains
\* successfully and satisfies the improvement predicate: the outcome is a success
\* with that candidate and that attempt's 1-based index, and no model or engine
\* call follows.
C9_FirstAcceptableAttemptWins ==
    /\ []C9_StopsAtAcceptance
    /\ [][response # None => (engine_log' = engine_log /\ llm_log' = llm_log)]_vars

C9_Witness ==
    /\ Returned
    /\ response[1].ok
    /\ response[1].attempts = 2
    /\ trail[1].stage = "improve"

\* C10: whatever the collaborators do, optimize_sql returns an outcome and no
\* error escapes to its caller.
C10_NoErrorEscapes == pc # "raised" /\ exception = None

\* the reply is a JSON object whose optimized_sql is a non-empty string
ContractShape(reply) ==
    /\ reply.kind = "object"
    /\ reply.optimized_sql # None
    /\ reply.optimized_sql[1].type = "string"
    /\ reply.optimized_sql[1].str # <<>>

\* the model answered (no transport failure) with something else than that
Malformed(reply) == reply.kind # "raise" /\ ~ContractShape(reply)

\* C11: a model output that is not a JSON object of the contract shape (invalid
\* JSON, JSON that is not an object, missing or empty optimized_sql, optimized_sql
\* that is not a string) never crashes the run: its attempt is recorded as a
\* model-call failure or empty output, that reason is the feedback of the next fix
\* prompt, and the run goes on to the next attempt or to exhaustion.
C11_MalformedOutputFeedsNextAttempt ==
    \A k \in 1..Len(llm_log) :
        Malformed(llm_log[k].reply) =>
            /\ pc \in {"attempt", "model_call", "explain_candidate", "done"}
            /\ exception = None
            /\ Len(trail) >= k
            /\ trail[k].stage = "llm"
            /\ trail[k].reason # None /\ trail[k].reason[1] # <<>>
            /\ k < Len(llm_log) =>
                  llm_log[k + 1].prompt.error_or_feedback = trail[k].reason[1]
            /\ (k = Len(llm_log) /\ Returned) =>
                  /\ ~response[1].ok
                  /\ response[1].error = trail[k].reason

\* the requests of fetch_metadata_for_tables follow the baseline EXPLAIN in the
\* engine's history: DESCRIBE and SHOW CREATE TABLE for the first table, then for
\* the second, and so on
DescribeIndex(j) == 2 * j
ShowCreateIndex(j) == 2 * j + 1

\* the request returned no definition text
NoDefinition(reply) ==
    \A k \in 1..Len(reply.rows) :
        reply.rows[k] = <<>> \/ reply.rows[k][1] \in {None, Some("")}

\* C12: when the SHOW CREATE TABLE request for a table fails or returns nothing,
\* the table's properties are empty and no error is produced: metadata gathering
\* and the run continue.
C12_PropertiesAreBestEffort ==
    \A j \in 1..Len(table_refs) :
        ( /\ ShowCreateIndex(j) <= Len(engine_log)
          /\ \/ engine_log[ShowCreateIndex(j)].reply.raises
             \/ NoDefinition(engine_log[ShowCreateIndex(j)].reply) )
        => /\ pc # "raised"
           /\ exception = None
           /\ Len(metas) >= j
           /\ metas[j].properties = {}

\* C13: when the DESCRIBE request for a referenced table fails, the table's entry
\* has an empty column list and the run is not aborted: the other tables are still
\* gathered and the attempt loop still runs.
C13_ColumnFailureLeavesEmptyColumns ==
    \A j \in 1..Len(table_refs) :
        ( /\ DescribeIndex(j) <= Len(engine_log)
          /\ engine_log[DescribeIndex(j)].reply.raises )
        => /\ pc # "raised"
           /\ exception = None
           /\ pc \in {"attempt", "model_call", "explain_candidate", "done"} => Len(metas) = Len(table_refs)
           /\ Len(metas) >= j => metas[j].columns = <<>>

\* C14: in read-only mode the gate accepts a statement only if it is a query-only
\* statement: an original that is a mutating statement (INSERT ... SELECT
\* included) or that does not parse does not get past the entry guard, and no
\* run returns success with such a statement as optimized_sql.
C14_ReadOnlyGateAdmitsQueriesOnly ==
    s.read_only_mode =>
        /\ (original_sql # <<>> /\ ~IsQueryOnly(original_sql)) =>
              /\ pc \in {"start", "done"}
              /\ engine_log = <<>>
              /\ llm_log = <<>>
        /\ (Returned /\ response[1].ok) => IsQueryOnly(response[1].optimized_sql[1])

\* the candidates the run took from the model, stripped as optimizer.py:166 does
Candidates == {strip(llm_log[k].reply.optimized_sql[1].str) : k \in Produced}

\* the referenced tables with the configured catalog and schema filled in
ReferencedTables ==
    {_split_fqtn_for_trino(table_refs[j], s.trino_catalog, s.trino_schema) :
        j \in 1..Len(table_refs)}

\* C15: every request the run sends to the engine is an EXPLAIN of the original or
\* of a candidate, or a DESCRIBE or SHOW CREATE TABLE of a referenced table; the
\* original and the candidates reach the engine in no other form.
C15_OnlyExplainReachesEngine ==
    LET statements == {original_sql} \cup Candidates
        names == {fqtn(t) : t \in ReferencedTables}
    IN  \A k \in 1..Len(engine_log) :
            LET st == engine_log[k].statement IN
            /\ st # <<>>
            /\ \/ Head(st) = "EXPLAIN " /\ Tail(st) \in statements
               \/ Head(st) \in {"DESCRIBE ", "SHOW CREATE TABLE "} /\ Tail(st) \in names
            /\ st \notin statements

C15_Witness ==
    /\ Len(engine_log) >= 4
    /\ engine_log[2].statement = <<"DESCRIBE ", "hive", ".", "default", ".", "t">>
    /\ engine_log[Len(engine_log)].statement = <<"EXPLAIN ", "DROP TABLE t">>
    /\ "DROP TABLE t" \in {c[1] : c \in {x \in Candidates : x # <<>>}}

\* the first cells of the rows that have one, in order, a newline between them
RECURSIVE FirstColumns(_)
FirstColumns(rows) ==
    IF rows = <<>> THEN <<>>
    ELSE LET rest == FirstColumns(Tail(rows)) IN
         IF Head(rows) = <<>> \/ Head(rows)[1] = None THEN rest
         ELSE IF rest = <<>> THEN <<Head(rows)[1][1]>>
         ELSE <<Head(rows)[1][1], "\n">> \o rest

\* the plan lines that state a row count the run can read as a number
ReadableEstimates ==
    {"Estimates: {rows: 1000 (9kB)}", "Estimates: {rows: 1050 (9kB)}",
     "Estimates: {rows: 1051 (9kB)}"}

\* what run_explain owes its caller for the reply the engine gave
ExplainContract(reply, res) ==
    IF reply.raises
    THEN /\ ~res.ok
         /\ res.error # None
         /\ IsInfix(reply.error, res.error[1])
    ELSE /\ res.ok
         /\ res.error = None
         /\ res.text = FirstColumns(reply.rows)
         /\ (\A k \in 1..Len(res.text) : res.text[k] \notin ReadableEstimates)
               => res.estimated_rows = None

\* C16: run_explain always returns a value: when the engine request returns, ok is
\* true and text is the first column of the non-null rows joined by newlines,
\* whether or not an estimate was found (a missing or unparsable one leaves
\* estimated_rows unset); when the request raises, ok is false and error is
\* derived from the failure.
C16_RunExplainReturnsAValue ==
    /\ engine_log # <<>> =>
          /\ explain_before # None
          /\ ExplainContract(engine_log[1].reply, explain_before[1])
    /\ (pc \in {"explain_candidate", "done"} /\ explain_after # None) =>
          ExplainContract(engine_log[Len(engine_log)].reply, explain_after[1])
    /\ (Len(engine_log) >= 2 /\ Head(engine_log[Len(engine_log)].statement) = "EXPLAIN ")
          => explain_after # None
    /\ (exception # None /\ Head(engine_log[Len(engine_log)].statement) = "EXPLAIN ")
          => exception[1] \notin EngineErrors

C16_Witness ==
    /\ explain_before # None /\ explain_after # None
    /\ engine_log[1].reply.rows
          = <<<<Some("Estimates: {rows: 1000 (9kB)}"), Some("x")>>, <<>>,
              <<Some("Estimates: {rows: 1051 (9kB)}")>>>>
    /\ explain_before[1].estimated_rows = Some(1000)
    /\ explain_after[1].ok
    /\ explain_after[1].text = <<"Estimates: {rows: 1.2.3 (9kB)}">>
    /\ explain_after[1].estimated_rows = None

\* fetch_metadata_for_tables has returned
MetadataGathered ==
    /\ explain_before # None /\ explain_before[1].ok
    /\ pc \in {"attempt", "model_call", "explain_candidate", "done"}

\* the positions in the engine's history of the requests with this text
Requests(statement) ==
    {k \in 1..Len(engine_log) : engine_log[k].statement = statement}

\* C17: metadata gathering produces exactly one TableMetadata per referenced table,
\* in the order of the references, with the catalog and schema defaults filled in,
\* and each table (the same catalog, schema and table once the defaults are
\* applied) is fetched only once: one DESCRIBE and one SHOW CREATE TABLE request.
C17_OneEntryAndOneFetchPerTable ==
    /\ \A t \in ReferencedTables :
          /\ Cardinality(Requests(<<"DESCRIBE ">> \o fqtn(t))) <= 1
          /\ Cardinality(Requests(<<"SHOW CREATE TABLE ">> \o fqtn(t))) <= 1
    /\ MetadataGathered =>
          /\ Len(metas) = Len(table_refs)
          /\ \A j \in 1..Len(metas) :
                /\ metas[j].table.table = table_refs[j].table
                /\ metas[j].table.catalog
                      = (IF table_refs[j].catalog = "" THEN s.trino_catalog
                         ELSE table_refs[j].catalog)
                /\ metas[j].table.schema
                      = (IF table_refs[j].schema = "" THEN s.trino_schema
                         ELSE table_refs[j].schema)
          /\ \A j, k \in 1..Len(metas) : metas[j].table = metas[k].table => j = k
          /\ \A t \in ReferencedTables :
                /\ Cardinality(Requests(<<"DESCRIBE ">> \o fqtn(t))) = 1
                /\ Cardinality(Requests(<<"SHOW CREATE TABLE ">> \o fqtn(t))) = 1

\* the two names are the same up to the case of their letters
SameIgnoringCase(a, b) ==
    \/ a = b
    \/ {a, b} \in {{"DS", "ds"}, {"Date", "date"}, {"HOUR", "hour"}}

\* the position of a pattern in the fixed pattern order
PatternIndex(p) == CHOOSE k \in 1..Len(PartitionPatterns) : PartitionPatterns[k] = p

\* the column names of a column list, as a set
NameSet(columns) == {columns[k].name : k \in 1..Len(columns)}

\* C18: the partition candidates are the patterns (ds, date, event_date, dt, day,
\* hour, event_hour, partition_date) that equal some column name up to case, in
\* the fixed pattern order; they do not depend on the table properties or on the
\* order of the columns, contain ds for the columns {id, ds, value} and are empty
\* for {id, value}.
C18_PartitionCandidatesFromColumnNames ==
    pc = "infer_partitions_returned" =>
        LET columns == metas[1].columns
            result == metas[1].partition_columns
        IN  /\ \A k \in 1..Len(result) :
                  \E p \in 1..Len(PartitionPatterns) : PartitionPatterns[p] = result[k]
            /\ \A p \in 1..Len(PartitionPatterns) :
                  (\E k \in 1..Len(result) : result[k] = PartitionPatterns[p])
                     <=> (\E n \in NameSet(columns) :
                             SameIgnoringCase(n, PartitionPatterns[p]))
            /\ \A j, k \in 1..Len(result) :
                  j < k => PatternIndex(result[j]) < PatternIndex(result[k])
            /\ \A props \in PropertyValues, order \in Permutations(1..Len(columns)) :
                  infer_partition_columns_from_properties(props,
                      [k \in 1..Len(columns) |-> columns[order[k]]]) = result
            /\ NameSet(columns) = {"id", "ds", "value"} => result = <<"ds">>
            /\ NameSet(columns) = {"id", "value"} => result = <<>>

C18_Witness ==
    /\ pc = "infer_partitions_returned"
    /\ [k \in 1..Len(metas[1].columns) |-> metas[1].columns[k].name] = <<"HOUR", "DS", "id">>
    /\ metas[1].properties # {}
    /\ metas[1].partition_columns = <<"ds", "hour">>

RiskLabels == {"low", "medium", "high", "unknown"}

\* C19: in every outcome, whatever the model answered, the risk label is absent or
\* one of low, medium, high, unknown.
C19_RiskLabelInClosedSet ==
    Returned =>
        \/ response[1].llm_risk = None
        \/ response[1].llm_risk[1] \in RiskLabels

\* the requests of the loop: those after the baseline EXPLAIN and the two requests
\* of each table
CandidateRequests(log, metadata) == SubSeq(log, 2 + 2 * Len(metadata), Len(log))

\* the replies a collaborator handle gave, in order
Replies(log) == [k \in 1..Len(log) |-> log[k].reply]

\* the outcome optimize_sql produces on its own from the loop's entry when its
\* model answers llms and its engine answers explains, in that order; None while
\* the replies do not carry the run to a return
RECURSIVE RunAlone(_, _, _, _)
RunAlone(loc, ctx, llms, explains) ==
    IF loc.i >= range_stop(ctx.s) THEN Some(FailureResponse(loc, ctx))
    ELSE IF llms = <<>> THEN None
    ELSE LET called == ModelCall(EnterAttempt(loc), ctx, Head(llms)) IN
         IF called.next = "attempt"
         THEN RunAlone(called.loc, ctx, Tail(llms), explains)
         ELSE IF called.next = "raised" \/ explains = <<>> THEN None
         ELSE LET checked == CandidateExplained(called.loc, ctx, Head(explains)) IN
              IF checked.next = "done" THEN checked.response
              ELSE RunAlone(checked.loc, ctx, Tail(llms), Tail(explains))

\* a returned run has the outcome it produces alone on the same replies
OutcomeAsAlone ==
    \A r \in Runs :
        response[r] # None =>
            /\ pc[r] = "done"
            /\ response[r] = RunAlone(InitialLocals, Context(r), Replies(llm_log[r]),
                                      Replies(CandidateRequests(engine_log[r], metas[r])))

\* a step in which run r neither moves nor calls a collaborator leaves the locals
\* and the outcome of run r as they were
NoForeignWrite ==
    \A r \in Runs :
        (pc'[r] = pc[r] /\ llm_log'[r] = llm_log[r] /\ engine_log'[r] = engine_log[r]) =>
            /\ candidate_sql'[r] = candidate_sql[r]
            /\ explain_after'[r] = explain_after[r]
            /\ llm_changes'[r] = llm_changes[r]
            /\ llm_assumptions'[r] = llm_assumptions[r]
            /\ llm_risk'[r] = llm_risk[r]
            /\ last_error'[r] = last_error[r]
            /\ attempts'[r] = attempts[r]
            /\ i'[r] = i[r]
            /\ response'[r] = response[r]
            /\ exception'[r] = exception[r]

\* C20: two invocations of optimize_sql interleaved in any order, each with its own
\* collaborator handles, are isolated: each run's outcome (candidate, explain
\* results, failure reason, attempts) is the outcome it produces when run alone,
\* and no step of one run changes the state of the other.
C20_ConcurrentRunsAreIsolated ==
    /\ []OutcomeAsAlone
    /\ [][NoForeignWrite]_vars

C20_Witness ==
    /\ response["r2"] # None
    /\ response["r2"][1].ok
    /\ response["r2"][1].optimized_sql = Some(<<"SELECT a FROM t WHERE ds = 1">>)
    /\ pc["r1"] = "explain_candidate"
    /\ attempts["r1"] = 2
    /\ candidate_sql["r1"] = Some(<<"DROP TABLE t">>)
    /\ Len(engine_log["r1"]) = 2
    /\ Len(engine_log["r2"]) >= 4

\* C21: when the original and the accepted SQL are textually identical the diff of
\* the outcome is empty.
C21_IdenticalSqlHasEmptyDiff ==
    (Returned /\ response[1].optimized_sql = Some(response[1].original_sql)) =>
        response[1].diff = <<>>

C21_Witness ==
    /\ Returned
    /\ response[1].ok
    /\ response[1].original_sql = <<"INSERT INTO t SELECT a FROM s">>
    /\ response[1].optimized_sql = Some(response[1].original_sql)
    /\ response[1].diff = <<>>

GateMessage == <<"Candidate SQL is not SELECT-only (read_only_mode).">>

\* the attempts that went as far as the explain of their candidate
Explained == {k \in 1..Len(trail) : trail[k].stage \in {"explain", "improve", "accepted"}}

\* C22: within each attempt the checks run in the order model call, safety gate,
\* candidate explain, improvement check; the attempt records the reason of the
\* first check that fails and no later check runs; the reasons of different checks
\* are different messages; in read-only mode a candidate that fails the gate is
\* never sent to the engine, and with read-only mode off no candidate is stopped
\* by the gate.
C22_ChecksInOrderFirstFailureRecorded ==
    llm_log # <<>> =>
        LET first == 1 + 2 * Len(metas)
            slot(k) == first + Cardinality({j \in Explained : j <= k})
        IN
        /\ Len(trail) <= Len(llm_log)
        /\ Len(engine_log) = first + Cardinality(Explained)
        /\ \A k \in 1..Len(trail) :
              LET a == trail[k]
                  res == optimize(llm_log[k].reply)
              IN
              /\ a.stage = "llm" <=> k \notin Produced
              /\ a.stage = "llm" =>
                    a.reason = Some(OrElse(res.error, <<"LLM returned empty output">>))
              /\ k \in Produced =>
                    LET c == strip(llm_log[k].reply.optimized_sql[1].str) IN
                    /\ a.stage = "gate" <=> (s.read_only_mode /\ ~_is_read_only_select(c))
                    /\ a.stage = "gate" => a.reason = Some(GateMessage)
                    /\ a.stage # "gate" =>
                          LET asked == engine_log[slot(k)] IN
                          /\ asked.statement = ExplainStatement(c)
                          /\ a.stage = "explain" <=> asked.reply.raises
                          /\ a.stage = "explain" =>
                                /\ Head(a.reason[1]) = "EXPLAIN failed: "
                                /\ IsInfix(asked.reply.error, a.reason[1])
                          /\ a.stage = "improve" =>
                                /\ a.reason = Some(NotImprovedMessage)
                                /\ ~_is_improved(explain_before[1], a.after[1])
                          /\ a.stage = "accepted" =>
                                /\ a.reason = None
                                /\ _is_improved(explain_before[1], a.after[1])
        /\ \A k, j \in 1..Len(trail) :
              trail[k].stage # trail[j].stage => trail[k].reason # trail[j].reason
        /\ s.read_only_mode =>
              \A c \in Candidates : ~_is_read_only_select(c) =>
                  \A e \in 1..Len(engine_log) : engine_log[e].statement # ExplainStatement(c)
        /\ ~s.read_only_mode => \A k \in 1..Len(trail) : trail[k].stage # "gate"

C22_Witness ==
    /\ s.read_only_mode
    /\ Len(trail) = 2
    /\ trail[1].stage = "gate"
    /\ trail[2].stage = "explain"
    /\ Len(engine_log) = 2 + 2 * Len(metas)

\* a step that ends the loop: from inside the loop to the end of the run
LoopEnds == pc \in {"attempt", "model_call", "explain_candidate"} /\ pc' \in {"done", "raised"}

\* no attempt is under way: every model call made so far has its attempt finished
BetweenAttempts ==
    /\ pc = "attempt"
    /\ Len(trail) = Len(llm_log)
    /\ llm_log' = llm_log
    /\ engine_log' = engine_log

\* C23: when every engine call and every model call returns, every run reaches a
\* terminal outcome, after at most max_fix_attempts + 1 attempts (stated for
\* max_fix_attempts >= -1); the loop ends only between attempts, except by
\* accepting the current candidate.
C23_EveryRunReachesAnOutcome ==
    /\ <>Returned
    /\ [](Returned =>
            (s.max_fix_attempts >= 0 - 1 =>
                /\ response[1].attempts <= s.max_fix_attempts + 1
                /\ Len(llm_log) <= s.max_fix_attempts + 1))
    /\ [][LoopEnds => (BetweenAttempts \/ (response' # None /\ response'[1].ok))]_vars

\* C24: in every fix prompt the candidate shown is the candidate the preceding
\* attempt rejected, and the feedback is the reason that attempt gave; after an
\* attempt that had no candidate (the model call failed) no candidate is shown.
C24_FixPromptShowsRejectedCandidate ==
    \A k \in 2..Len(llm_log) :
        LET asked == llm_log[k].prompt IN
        /\ Len(trail) >= k - 1
        /\ asked.error_or_feedback = trail[k - 1].reason[1]
        /\ asked.candidate_sql =
              (IF k - 1 \in Produced
               THEN strip(llm_log[k - 1].reply.optimized_sql[1].str)
               ELSE <<>>)

\* the model call that produced the candidate the run holds last
LastProducing == CHOOSE x \in Produced : \A y \in Produced : y <= x

\* C25: in every outcome the candidate-related fields describe one candidate:
\* explain_after, when present, is the explain result of the SQL in optimized_sql
\* (the result of the attempt that produced it), and llm_changes, llm_assumptions
\* and llm_risk come from the model response that produced optimized_sql.
C25_OutcomeDescribesOneCandidate ==
    (Returned /\ response[1].optimized_sql # None) =>
        /\ Produced # {}
        /\ LET k == LastProducing
               res == optimize(llm_log[k].reply)
           IN
           /\ response[1].optimized_sql = Some(strip(res.optimized_sql[1].str))
           /\ response[1].explain_after # None =>
                 /\ response[1].explain_after = trail[k].after
                 /\ \E e \in 1..Len(engine_log) :
                       /\ engine_log[e].statement =
                             ExplainStatement(response[1].optimized_sql[1])
                       /\ run_explain(engine_log[e].reply) = response[1].explain_after[1]
           /\ response[1].llm_changes = list_or_empty(res.changes)
           /\ response[1].llm_assumptions = list_or_empty(res.assumptions)
           /\ response[1].llm_risk = risk_or_unknown(res.risk)

====
